---- MODULE Spec2Model ----
(***************************************************************************)
(* State-machine model of wb-toolsloader (src/src/main.rs): one run of     *)
(* main() over the configured packages.  Every blocking call of main (an   *)
(* HTTP fetch, a console prompt, a file-system operation, one call of      *)
(* extract_archives) is one action; the answers of the network, of the     *)
(* operator, of the file system and of the archiving tool are the inputs,  *)
(* drawn with \E from the small sets below.                                *)
(***************************************************************************)
EXTENDS Integers, Sequences, FiniteSets, TLC

\* ------------------------------------------------------------------ bounds

\* Longest manifest (file list) a package's filelist_url returns.
MaxFiles == 2

\* Longest text handed to Version::parse.
MaxText == 5

\* ------------------------------------------------------------- value sets

\* The configured packages, in the order of the [packages] table.
Pkgs == {1, 2}

\* Option<Version>::None.
NoVersion == [date |-> <<>>, iteration |-> -1]

\* Dates are strings, compared as strings: sequences of digits.
Dates == {<<9>>, <<1, 0>>, <<1, 1>>}

Iterations == {-1, 0, 1}

Versions == [date : Dates, iteration : Iterations]

\* The version recorded before the run in an output directory that has one.
InstalledVersion == [date |-> <<1, 0>>, iteration |-> 1]

\* The versions a package's version_url answers with during a run.
RemoteVersions == {InstalledVersion, [date |-> <<9>>, iteration |-> 0]}

\* Console answers to a (Y/N) prompt, after trim.
Answers == {"Y", "y", "N", ""}

\* Console answers to the (O)verwrite or (D)elete prompt, after trim.
Choices == {"D", "d", "O", ""}

\* What the operator types at a password prompt, after trim.
Entries == {"", "m1"}

\* Manifest entries: a volume "<base>--n<num>.globby", or a name the
\* transformer does not recognise.
Plain == [base |-> "plainfile.txt", num |-> 0]

ManifestEntries == {[base |-> "a", num |-> 1], [base |-> "a", num |-> 2],
                    [base |-> "b", num |-> 1], Plain}

Manifests == UNION {[1..n -> ManifestEntries] : n \in 0..MaxFiles}

\* ------------------------------------------------------------ Version

\* Ordering of Rust strings (byte-wise lexicographic), on digit sequences.
RECURSIVE StrCmp(_, _)
StrCmp(s, t) ==
    IF s = <<>> /\ t = <<>> THEN 0
    ELSE IF s = <<>> THEN -1
    ELSE IF t = <<>> THEN 1
    ELSE IF Head(s) < Head(t) THEN -1
    ELSE IF Head(s) > Head(t) THEN 1
    ELSE StrCmp(Tail(s), Tail(t))

\* The derived ordering as a mutation would break it: iteration first.
VersionCmp_iterationFirst(a, b) ==
    IF a.iteration < b.iteration THEN -1
    ELSE IF a.iteration > b.iteration THEN 1
    ELSE StrCmp(a.date, b.date)

\* #[derive(PartialOrd, Ord)] on Version: the fields in declaration order.
VersionCmp(a, b) ==
    IF StrCmp(a.date, b.date) # 0 THEN StrCmp(a.date, b.date)
    ELSE IF a.iteration < b.iteration THEN -1
    ELSE IF a.iteration > b.iteration THEN 1
    ELSE 0

\* buffer.trim().eq_ignore_ascii_case("Y")
IsYes(answer) == answer \in {"Y", "y"}

\* should_update_package as a mutation would break it: the equal-version
\* case answers true without asking.
ShouldUpdate_NoAsk(current, new, answer) ==
    IF current = NoVersion THEN [update |-> TRUE, prompted |-> FALSE]
    ELSE IF VersionCmp(current, new) > 0
         THEN [update |-> IsYes(answer), prompted |-> TRUE]
    ELSE [update |-> TRUE, prompted |-> FALSE]

\* should_update_package: the decision, and whether the operator was asked.
ShouldUpdate(current, new, answer) ==
    IF current = NoVersion THEN [update |-> TRUE, prompted |-> FALSE]
    ELSE IF current = new THEN [update |-> IsYes(answer), prompted |-> TRUE]
    ELSE IF VersionCmp(current, new) > 0
         THEN [update |-> IsYes(answer), prompted |-> TRUE]
    ELSE [update |-> TRUE, prompted |-> FALSE]

\* ------------------------------------------- Version as text

\* The decimal digits of a non-negative integer, most significant first.
RECURSIVE Digits(_)
Digits(n) == IF n < 10 THEN <<n>> ELSE Append(Digits(n \div 10), n % 10)

\* Texts are sequences of characters; these are the characters that matter
\* to Version::parse: digits, the dash of the separator and of a sign, the
\* plus sign, white space.
Chars == {"0", "1", "-", "+", " "}

Texts == UNION {[1..n -> Chars] : n \in 0..MaxText}

DigitChars == <<"0", "1", "2", "3", "4", "5", "6", "7", "8", "9">>

IsDigit(c) == \E i \in DOMAIN DigitChars : DigitChars[i] = c

DigitValue(c) == (CHOOSE i \in DOMAIN DigitChars : DigitChars[i] = c) - 1

\* str::trim
RECURSIVE TrimStart(_)
TrimStart(s) == IF s # <<>> /\ Head(s) = " " THEN TrimStart(Tail(s)) ELSE s

RECURSIVE TrimEnd(_)
TrimEnd(s) ==
    IF s # <<>> /\ s[Len(s)] = " " THEN TrimEnd(SubSeq(s, 1, Len(s) - 1)) ELSE s

Trim(s) == TrimEnd(TrimStart(s))

\* str::split("--"): the matches of the separator are taken from the left
\* and do not overlap; part is the piece collected so far.
RECURSIVE SplitDashes(_, _)
SplitDashes(s, part) ==
    IF Len(s) >= 2 /\ s[1] = "-" /\ s[2] = "-"
    THEN <<part>> \o SplitDashes(SubSeq(s, 3, Len(s)), <<>>)
    ELSE IF s = <<>> THEN <<part>>
    ELSE SplitDashes(Tail(s), Append(part, Head(s)))

\* The value of a sequence of digit characters.
RECURSIVE DecimalValue(_)
DecimalValue(s) ==
    IF s = <<>> THEN 0
    ELSE 10 * DecimalValue(SubSeq(s, 1, Len(s) - 1)) + DigitValue(s[Len(s)])

\* str::parse::<i32>: an optional sign, then one digit at least and digits
\* only.  The texts of MaxText characters are too short to leave the range
\* of i32, the one other way to fail.
ParseI32(s) ==
    LET signed == s # <<>> /\ Head(s) \in {"+", "-"}
        body == IF signed THEN Tail(s) ELSE s
        v == IF signed /\ Head(s) = "-" THEN 0 - DecimalValue(body)
             ELSE DecimalValue(body)
    IN  IF body = <<>> \/ \E i \in DOMAIN body : ~IsDigit(body[i])
        THEN [ok |-> FALSE, value |-> 0]
        ELSE [ok |-> TRUE, value |-> v]

\* Err of Version::parse.
NoParse == [ok |-> FALSE, date |-> <<>>, iteration |-> 0]

\* Version::parse
VersionParse(text) ==
    LET parts == SplitDashes(Trim(text), <<>>)
    IN  IF Len(parts) # 2 THEN NoParse
        ELSE LET iteration == ParseI32(parts[2])
             IN  IF ~iteration.ok THEN NoParse
                 ELSE [ok |-> TRUE, date |-> parts[1],
                       iteration |-> iteration.value]

\* Display of an i32 as a mutation would break it: the sign is dropped.
FormatI32_unsigned(n) ==
    LET d == Digits(IF n < 0 THEN 0 - n ELSE n)
    IN  [i \in DOMAIN d |-> DigitChars[d[i] + 1]]

\* Display of an i32: a minus sign for a negative value, then the digits.
FormatI32(n) ==
    LET d == Digits(IF n < 0 THEN 0 - n ELSE n)
        text == [i \in DOMAIN d |-> DigitChars[d[i] + 1]]
    IN  IF n < 0 THEN <<"-">> \o text ELSE text

\* format!("{}--{}", version.date, version.iteration) of save_version_file.
FormatVersion(date, iteration) == date \o <<"-", "-">> \o FormatI32(iteration)

\* ------------------------------------------------- Filename transformer

\* format!("{:03}", number): the decimal digits, zero-padded to three.

Pad3(n) ==
    LET d == Digits(n)
    IN  IF Len(d) = 1 THEN <<0, 0>> \o d
        ELSE IF Len(d) = 2 THEN <<0>> \o d
        ELSE d

\* transform_filename: None for a name without the --n<digits>.globby tail,
\* else <base>.7z.<NNN>.
NoName == [base |-> "", ext |-> <<>>]

TransformFilename(entry) ==
    IF entry = Plain THEN NoName
    ELSE [base |-> entry.base, ext |-> Pad3(entry.num)]

\* The filter as a mutation would break it: the extension ends with "001".
IsFirstVolume_suffix(name) ==
    /\ Len(name.ext) >= 3
    /\ SubSeq(name.ext, Len(name.ext) - 2, Len(name.ext)) = <<0, 0, 1>>

\* The filter of extract_archives: the extension starts with "001".
IsFirstVolume(name) ==
    Len(name.ext) >= 3 /\ SubSeq(name.ext, 1, 3) = <<0, 0, 1>>

\* ---------------------------------------------------------------- state

VARIABLES
    \* configuration (struct Package), read-only
    name, is_root, password,
    \* file system: output directories, version.txt, the dl directory
    outExists, outFiles, verFile, dlExists, staging, staged,
    \* main(): position and locals
    pc, idx, package_vec, selected_index,
    files, version, retry_mode, last_password, current_password,
    \* observation of the run
    status, pwSource, lastPrompt, attempted, lastTool, lastResult, wrote,
    lastDownload, toolMissing, manualSuccess, cleanupFailed,
    \* one call of a pure function: its arguments and its result
    call

cfgVars == <<name, is_root, password, call>>

fsVars == <<outExists, outFiles, verFile, dlExists, staging, staged>>

localVars == <<files, version, retry_mode, last_password, current_password,
               pwSource, lastPrompt, attempted, lastTool, lastResult, wrote, lastDownload>>

vars == <<cfgVars, fsVars, pc, idx, package_vec, selected_index, localVars,
          status, toolMissing, manualSuccess, cleanupFailed>>

\* ------------------------------------------------------------ the sort

\* The comparator as a mutation would break it: by name alone.
PkgCmp_nameOnly(a, b) == StrCmp(name[a], name[b])

\* The comparator of package_vec.sort_by: root packages first, then by name.
PkgCmp(a, b) ==
    IF is_root[a] = is_root[b] THEN StrCmp(name[a], name[b])
    ELSE IF is_root[a] THEN -1 ELSE 1

Perms(S) == {s \in [1..Cardinality(S) -> S] : \A x \in S : \E i \in DOMAIN s : s[i] = x}

\* sort_by is stable: equal packages keep their configuration order.
SortPackages ==
    CHOOSE s \in Perms(Pkgs) :
        \A i, j \in DOMAIN s :
            i < j => \/ PkgCmp(s[i], s[j]) < 0
                     \/ PkgCmp(s[i], s[j]) = 0 /\ s[i] < s[j]

cur == package_vec[idx]

\* ----------------------------------------------------------------- Init

\* No prompt has been answered, no tool has run, no function been called.
NoPrompt == [kind |-> "none", entry |-> ""]

NoTool == [launch |-> "none", success |-> FALSE, marker |-> FALSE]

NoCall == [fn |-> "none"]

\* The run starts from any configuration of the two packages' is_root and
\* password, with package 1 named after package 2, and with each output
\* directory either absent or holding an installed version.
Init ==
    /\ name = [p \in Pkgs |-> IF p = 1 THEN <<2>> ELSE <<1>>]
    /\ is_root \in [Pkgs -> BOOLEAN]
    /\ password \in [Pkgs -> {"", "cfg"}]
    /\ call = NoCall
    /\ outExists \in [Pkgs -> BOOLEAN]
    /\ outFiles = [p \in Pkgs |-> IF outExists[p] THEN {"old"} ELSE {}]
    /\ verFile = [p \in Pkgs |-> IF outExists[p] THEN InstalledVersion ELSE NoVersion]
    /\ dlExists = FALSE
    /\ staging = [p \in Pkgs |-> FALSE]
    /\ staged = [p \in Pkgs |-> {}]
    /\ pc = "start"
    /\ idx = 1
    /\ package_vec = <<>>
    /\ selected_index = 0
    /\ files = <<>>
    /\ version = NoVersion
    /\ retry_mode = FALSE
    /\ last_password = ""
    /\ current_password = ""
    /\ status = [p \in Pkgs |-> "none"]
    /\ pwSource = "none"
    /\ lastPrompt = NoPrompt
    /\ attempted = FALSE
    /\ lastTool = NoTool
    /\ lastResult = "none"
    /\ wrote = FALSE
    /\ lastDownload = "none"
    /\ toolMissing = FALSE
    /\ manualSuccess = FALSE
    /\ cleanupFailed = FALSE

\* The locals of one iteration of the package loop go out of scope.
ResetLocals ==
    /\ files' = <<>>
    /\ version' = NoVersion
    /\ retry_mode' = FALSE
    /\ last_password' = ""
    /\ current_password' = ""
    /\ pwSource' = "none"
    /\ lastPrompt' = NoPrompt
    /\ attempted' = FALSE
    /\ lastTool' = NoTool
    /\ lastResult' = "none"
    /\ wrote' = FALSE
    /\ lastDownload' = "none"

\* `continue` in the package loop, and the fall through to its end.
Continue_return ==
    /\ pc' = "exited"
    /\ idx' = idx
    /\ ResetLocals

Continue ==
    /\ pc' = "loop"
    /\ idx' = idx + 1
    /\ ResetLocals

\* ------------------------------------------------- startup and selection

\* main up to the package menu: configuration, output root, loader version
\* check, the sort.  proceed = FALSE is any of its returns.
Startup ==
    /\ pc = "start"
    /\ \E proceed \in BOOLEAN :
          IF proceed
          THEN /\ package_vec' = SortPackages
               /\ pc' = "select"
          ELSE /\ package_vec' = package_vec
               /\ pc' = "exited"
    /\ UNCHANGED <<cfgVars, fsVars, idx, selected_index, localVars, status,
                   toolMissing, manualSuccess, cleanupFailed>>

\* The menu: E exits, A selects all (0), a valid number selects one package.
Select ==
    /\ pc = "select"
    /\ \E input \in {"e", "a", "n"}, n \in 1..Len(package_vec) :
          IF input = "e"
          THEN /\ pc' = "exited"
               /\ selected_index' = selected_index
          ELSE /\ pc' = "loop"
               /\ selected_index' = IF input = "a" THEN 0 ELSE n
    /\ idx' = 1
    /\ UNCHANGED <<cfgVars, fsVars, package_vec, localVars, status,
                   toolMissing, manualSuccess, cleanupFailed>>

\* The head of the package loop: the next selected package, or the end.
LoopHead ==
    /\ pc = "loop"
    /\ IF idx > Len(package_vec)
       THEN /\ pc' = "final"
            /\ UNCHANGED <<idx, status>>
       ELSE IF selected_index # 0 /\ idx # selected_index
       THEN /\ idx' = idx + 1
            /\ UNCHANGED <<pc, status>>
       ELSE /\ pc' = "avail"
            /\ status' = [status EXCEPT ![cur] = "started"]
            /\ UNCHANGED idx
    /\ UNCHANGED <<cfgVars, fsVars, package_vec, selected_index, localVars,
                   toolMissing, manualSuccess, cleanupFailed>>

\* ------------------------------------------------ version and manifest

\* get_package_version_string: the package is available or it is not.
CheckAvailable ==
    /\ pc = "avail"
    /\ \E ok \in BOOLEAN :
          IF ok
          THEN /\ pc' = "files"
               /\ UNCHANGED <<idx, localVars, status>>
          ELSE /\ status' = [status EXCEPT ![cur] = "unavailable"]
               /\ Continue
    /\ UNCHANGED <<cfgVars, fsVars, package_vec, selected_index,
                   toolMissing, manualSuccess, cleanupFailed>>

\* get_package_files: the manifest, or an error.
FetchFiles ==
    /\ pc = "files"
    /\ \E ok \in BOOLEAN, r \in Manifests :
          IF ~ok
          THEN /\ status' = [status EXCEPT ![cur] = "manifest_error"]
               /\ Continue
          ELSE /\ files' = r
               /\ pc' = "version"
               /\ UNCHANGED <<idx, status, version, retry_mode, last_password,
                              current_password, pwSource, lastPrompt,
                              attempted, lastTool, lastResult, wrote, lastDownload>>
    /\ UNCHANGED <<cfgVars, fsVars, package_vec, selected_index,
                   toolMissing, manualSuccess, cleanupFailed>>

\* get_version and Version::parse of the package's remote version.
GetVersion ==
    /\ pc = "version"
    /\ \E outcome \in {"ok", "fetch_error", "parse_error"}, r \in RemoteVersions :
          IF outcome = "ok"
          THEN /\ version' = r
               /\ pc' = "decide"
               /\ UNCHANGED <<idx, status, files, retry_mode, last_password,
                              current_password, pwSource, lastPrompt,
                              attempted, lastTool, lastResult, wrote, lastDownload>>
          ELSE /\ status' = [status EXCEPT ![cur] = "version_error"]
               /\ Continue
    /\ UNCHANGED <<cfgVars, fsVars, package_vec, selected_index,
                   toolMissing, manualSuccess, cleanupFailed>>

\* get_current_version: None without version.txt, and main turns a read or
\* parse error into None.
CurrentVersion(p) == IF verFile[p] \in Versions THEN verFile[p] ELSE NoVersion

\* `for file in files`: the loop body runs while an entry is left, and
\* handle_output_dir follows the loop.
NextFileStep_first(rest) == "reconcile"

NextFileStep(rest) == IF rest = <<>> THEN "reconcile" ELSE "download"

\* The Ok(false) arm of the match on should_update_package: `continue`.
DeclineUpdate_proceed ==
    /\ status' = [status EXCEPT ![cur] = "skipped_update"]
    /\ pc' = NextFileStep(files)
    /\ UNCHANGED <<idx, localVars>>

DeclineUpdate ==
    /\ status' = [status EXCEPT ![cur] = "skipped_update"]
    /\ Continue

\* should_update_package and the match on its result.
Decide ==
    /\ pc = "decide"
    /\ \E answer \in Answers :
          LET d == ShouldUpdate(CurrentVersion(cur), version, answer)
          IN  IF d.update
              THEN /\ pc' = NextFileStep(files)
                   /\ UNCHANGED <<idx, status, localVars>>
              ELSE DeclineUpdate
    /\ UNCHANGED <<cfgVars, fsVars, package_vec, selected_index,
                   toolMissing, manualSuccess, cleanupFailed>>

\* ------------------------------------------------------------- download

DownloadOutcomes == {"ok", "mkdir_error", "http_error", "copy_error"}

\* The loop body as a mutation would break it: a name that cannot be
\* transformed ends the package's iteration.
Download_abortOnTransform ==
    /\ pc = "download"
    /\ LET file == Head(files)
           new_filename == TransformFilename(file)
       IN  IF new_filename = NoName
           THEN /\ Continue
                /\ UNCHANGED <<dlExists, staging, staged>>
           ELSE /\ \E outcome \in DownloadOutcomes :
                      /\ lastDownload' = outcome
                      /\ IF outcome = "mkdir_error"
                         THEN UNCHANGED <<dlExists, staging, staged>>
                         ELSE /\ dlExists' = TRUE
                              /\ staging' = [staging EXCEPT ![cur] = TRUE]
                              /\ staged' = IF outcome = "http_error" THEN staged
                                           ELSE [staged EXCEPT ![cur] = @ \cup {new_filename}]
                /\ files' = Tail(files)
                /\ pc' = NextFileStep(Tail(files))
                /\ UNCHANGED <<idx, version, retry_mode, last_password,
                               current_password, pwSource, lastPrompt,
                               attempted, lastTool, lastResult, wrote>>
    /\ UNCHANGED <<cfgVars, outExists, outFiles, verFile, package_vec,
                   selected_index, status, toolMissing, manualSuccess,
                   cleanupFailed>>

\* One iteration of `for file in files`: transform_filename, download_file.
\* download_file creates the staging directory before the GET and the
\* target file before the copy of the body.
Download ==
    /\ pc = "download"
    /\ LET file == Head(files)
           new_filename == TransformFilename(file)
       IN  \E outcome \in DownloadOutcomes :
              /\ lastDownload' = IF new_filename = NoName THEN "transform_error"
                                  ELSE outcome
              /\ IF new_filename = NoName \/ outcome = "mkdir_error"
                 THEN UNCHANGED <<dlExists, staging, staged>>
                 ELSE /\ dlExists' = TRUE
                      /\ staging' = [staging EXCEPT ![cur] = TRUE]
                      /\ staged' = IF outcome = "http_error" THEN staged
                                   ELSE [staged EXCEPT ![cur] = @ \cup {new_filename}]
    /\ files' = Tail(files)
    /\ pc' = NextFileStep(Tail(files))
    /\ UNCHANGED <<cfgVars, outExists, outFiles, verFile, idx, package_vec,
                   selected_index, version, retry_mode, last_password,
                   current_password, pwSource, lastPrompt, attempted, lastTool,
                   lastResult, wrote, status, toolMissing, manualSuccess,
                   cleanupFailed>>

\* ---------------------------------------------------- output reconciler

ReconcileOutcomes == {"ok", "remove_error", "create_error"}

\* handle_output_dir asks (O)verwrite or (D)elete exactly for an existing
\* output directory of a package that is not root.
OutputPrompted(p) == outExists[p] /\ ~is_root[p]

\* handle_output_dir as a mutation would break it: is_root is not looked at.
HandleOutputDir_noRoot(p, choice, fsr) ==
    LET keep == [exists |-> outExists[p], outFiles |-> outFiles[p],
                 verFile |-> verFile[p], ok |-> TRUE]
        empty == [exists |-> TRUE, outFiles |-> {}, verFile |-> NoVersion,
                  ok |-> TRUE]
        gone == [exists |-> FALSE, outFiles |-> {}, verFile |-> NoVersion,
                 ok |-> FALSE]
    IN  IF outExists[p]
        THEN IF choice \in {"D", "d"}
             THEN CASE fsr = "remove_error" -> [keep EXCEPT !.ok = FALSE]
                    [] fsr = "create_error" -> gone
                    [] OTHER -> empty
             ELSE keep
        ELSE IF fsr = "ok" THEN empty ELSE gone

\* handle_output_dir: the output directory after the call, and whether the
\* call returned Ok.  fsr is what the file system answers to the one
\* remove_dir_all / create_dir_all the call makes, if it makes one.
HandleOutputDir(p, choice, fsr) ==
    LET keep == [exists |-> outExists[p], outFiles |-> outFiles[p],
                 verFile |-> verFile[p], ok |-> TRUE]
        empty == [exists |-> TRUE, outFiles |-> {}, verFile |-> NoVersion,
                  ok |-> TRUE]
        gone == [exists |-> FALSE, outFiles |-> {}, verFile |-> NoVersion,
                 ok |-> FALSE]
    IN  IF outExists[p]
        THEN IF is_root[p] THEN keep
             ELSE IF choice \in {"D", "d"}
                  THEN CASE fsr = "remove_error" -> [keep EXCEPT !.ok = FALSE]
                         [] fsr = "create_error" -> gone
                         [] OTHER -> empty
                  ELSE keep
        ELSE IF fsr = "ok" THEN empty ELSE gone

\* What main does when handle_output_dir fails: `continue`.
ReconcileFailed ==
    /\ status' = [status EXCEPT ![cur] = "reconcile_error"]
    /\ Continue

Reconcile ==
    /\ pc = "reconcile"
    /\ \E choice \in Choices, fsr \in ReconcileOutcomes :
          LET r == HandleOutputDir(cur, choice, fsr)
          IN  /\ outExists' = [outExists EXCEPT ![cur] = r.exists]
              /\ outFiles' = [outFiles EXCEPT ![cur] = r.outFiles]
              /\ verFile' = [verFile EXCEPT ![cur] = r.verFile]
              /\ IF r.ok
                 THEN /\ pc' = "password"
                      /\ retry_mode' = FALSE
                      /\ last_password' = ""
                      /\ UNCHANGED <<idx, status, files, version,
                                     current_password, pwSource, lastPrompt,
                                     attempted, lastTool, lastResult, wrote, lastDownload>>
                 ELSE ReconcileFailed
    /\ UNCHANGED <<cfgVars, dlExists, staging, staged, package_vec,
                   selected_index, toolMissing, manualSuccess, cleanupFailed>>

\* ------------------------------------------------- password retry loop

\* The head of the retry loop: which password the next attempt gets, or the
\* break on a blank entry.  entry is the operator's line, read only on the
\* branches that prompt; prompt names the branch.
PasswordChoice_blank(configured, retry, last, entry) ==
    IF configured # "" /\ ~retry
    THEN [skip |-> FALSE, current |-> configured, last |-> last,
          source |-> "configured", prompt |-> "none"]
    ELSE IF retry
    THEN [skip |-> FALSE, current |-> entry, last |-> entry,
          source |-> "manual", prompt |-> "retry"]
    ELSE IF last # ""
    THEN IF entry # ""
         THEN [skip |-> FALSE, current |-> entry, last |-> entry,
               source |-> "manual", prompt |-> "previous"]
         ELSE [skip |-> FALSE, current |-> last, last |-> last,
               source |-> "previous", prompt |-> "previous"]
    ELSE IF entry = ""
         THEN [skip |-> TRUE, current |-> "", last |-> last,
               source |-> "none", prompt |-> "first"]
         ELSE [skip |-> FALSE, current |-> entry, last |-> entry,
               source |-> "manual", prompt |-> "first"]

\* The head of the retry loop as a mutation would break it: a blank line at
\* the first prompt is taken as the password.
PasswordChoice_firstBlank(configured, retry, last, entry) ==
    IF configured # "" /\ ~retry
    THEN [skip |-> FALSE, current |-> configured, last |-> last,
          source |-> "configured", prompt |-> "none"]
    ELSE IF retry
    THEN IF entry = ""
         THEN [skip |-> TRUE, current |-> "", last |-> last,
               source |-> "none", prompt |-> "retry"]
         ELSE [skip |-> FALSE, current |-> entry, last |-> entry,
               source |-> "manual", prompt |-> "retry"]
    ELSE IF last # ""
    THEN IF entry # ""
         THEN [skip |-> FALSE, current |-> entry, last |-> entry,
               source |-> "manual", prompt |-> "previous"]
         ELSE [skip |-> FALSE, current |-> last, last |-> last,
               source |-> "previous", prompt |-> "previous"]
    ELSE [skip |-> FALSE, current |-> entry, last |-> entry,
          source |-> "manual", prompt |-> "first"]

PasswordChoice(configured, retry, last, entry) ==
    IF configured # "" /\ ~retry
    THEN [skip |-> FALSE, current |-> configured, last |-> last,
          source |-> "configured", prompt |-> "none"]
    ELSE IF retry
    THEN IF entry = ""
         THEN [skip |-> TRUE, current |-> "", last |-> last,
               source |-> "none", prompt |-> "retry"]
         ELSE [skip |-> FALSE, current |-> entry, last |-> entry,
               source |-> "manual", prompt |-> "retry"]
    ELSE IF last # ""
    THEN IF entry # ""
         THEN [skip |-> FALSE, current |-> entry, last |-> entry,
               source |-> "manual", prompt |-> "previous"]
         ELSE [skip |-> FALSE, current |-> last, last |-> last,
               source |-> "previous", prompt |-> "previous"]
    ELSE IF entry = ""
         THEN [skip |-> TRUE, current |-> "", last |-> last,
               source |-> "none", prompt |-> "first"]
         ELSE [skip |-> FALSE, current |-> entry, last |-> entry,
               source |-> "manual", prompt |-> "first"]

ChoosePassword ==
    /\ pc = "password"
    /\ \E entry \in Entries :
          LET c == PasswordChoice(password[cur], retry_mode, last_password, entry)
          IN  /\ lastPrompt' = [kind |-> c.prompt,
                                entry |-> IF c.prompt = "none" THEN "" ELSE entry]
              /\ IF c.skip
                 THEN /\ pc' = "save"
                      /\ status' = [status EXCEPT ![cur] = "Skipped"]
                      /\ UNCHANGED <<current_password, last_password, pwSource>>
                 ELSE /\ pc' = "extract"
                      /\ current_password' = c.current
                      /\ last_password' = c.last
                      /\ pwSource' = c.source
                      /\ UNCHANGED status
    /\ lastTool' = NoTool
    /\ lastResult' = "none"
    /\ UNCHANGED <<cfgVars, fsVars, idx, package_vec, selected_index, files,
                   version, retry_mode, attempted, wrote, lastDownload, toolMissing,
                   manualSuccess, cleanupFailed>>

\* ------------------------------------------------------------ extractor

\* What cmd.output() gives for one archive group: the tool ran and exited
\* (with success or not, its stderr holding "Wrong password?" or not), or it
\* could not be started (NotFound, or another io::Error).
ToolOutcomes ==
    {[launch |-> "ran", success |-> TRUE, marker |-> FALSE],
     [launch |-> "ran", success |-> FALSE, marker |-> TRUE],
     [launch |-> "ran", success |-> FALSE, marker |-> FALSE],
     [launch |-> "not_found", success |-> FALSE, marker |-> FALSE],
     [launch |-> "io_error", success |-> FALSE, marker |-> FALSE]}

\* The match on cmd.output() in extract_archives: what one group ends in.
Classify_nomarker(o) ==
    IF o.launch = "not_found" THEN "ToolMissing"
    ELSE IF o.launch = "io_error" THEN "IoError"
    ELSE IF o.success THEN "ok"
    ELSE "ExtractionFailed"

Classify(o) ==
    IF o.launch = "not_found" THEN "ToolMissing"
    ELSE IF o.launch = "io_error" THEN "IoError"
    ELSE IF o.success THEN "ok"
    ELSE IF o.marker THEN "WrongPassword"
    ELSE "ExtractionFailed"

Archives(p) == {n \in staged[p] : IsFirstVolume(n)}

\* extract_archives over the staging directory of p: read_dir lists the
\* first volumes in `order`, out is what the tool does on each.  The loop
\* returns at the first error; without a staging directory read_dir fails.
ExtractArchives(p, order, out) ==
    IF ~staging[p]
    THEN [result |-> "IoError", tool |-> NoTool, moved |-> FALSE,
          invoked |-> <<>>]
    ELSE LET bad == {i \in DOMAIN order : Classify(out[order[i]]) # "ok"}
             stop == IF bad = {} THEN Len(order)
                     ELSE CHOOSE i \in bad : \A j \in bad : i <= j
             done == {order[i] : i \in {k \in DOMAIN order : k <= stop}}
         IN  [result |-> IF bad = {} THEN "ok" ELSE Classify(out[order[stop]]),
              tool |-> IF order = <<>> THEN NoTool ELSE out[order[stop]],
              moved |-> \E a \in done : Classify(out[a]) = "ok",
              invoked |-> SubSeq(order, 1, stop)]

\* The Err arm of the match on extract_archives in main: every error,
\* whatever its kind, goes round the retry loop in retry mode; a failed
\* configured password clears last_password.
OnExtractError_reuse(result) ==
    [pc |-> "password",
     retry_mode |-> IF password[cur] # "" /\ ~retry_mode THEN FALSE ELSE TRUE,
     last_password |-> IF password[cur] # "" /\ ~retry_mode THEN ""
                       ELSE last_password]

\* The Err arm as a mutation would break it: a failed attempt leaves the
\* retry loop.
OnExtractError_giveUp(result) ==
    [pc |-> "save",
     retry_mode |-> TRUE,
     last_password |-> IF password[cur] # "" /\ ~retry_mode THEN ""
                       ELSE last_password]

OnExtractError(result) ==
    [pc |-> "password",
     retry_mode |-> TRUE,
     last_password |-> IF password[cur] # "" /\ ~retry_mode THEN ""
                       ELSE last_password]

Extract ==
    /\ pc = "extract"
    /\ \E order \in Perms(Archives(cur)), out \in [Archives(cur) -> ToolOutcomes] :
          LET r == ExtractArchives(cur, order, out)
              e == OnExtractError(r.result)
          IN  /\ lastResult' = r.result
              /\ lastTool' = r.tool
              /\ outFiles' = IF r.moved
                             THEN [outFiles EXCEPT ![cur] = @ \cup {"new"}]
                             ELSE outFiles
              /\ toolMissing' = (toolMissing \/ r.result = "ToolMissing")
              /\ IF r.result = "ok"
                 THEN /\ pc' = "save"
                      /\ status' = [status EXCEPT ![cur] = "Succeeded"]
                      /\ manualSuccess' = (manualSuccess \/ pwSource = "manual")
                      /\ UNCHANGED <<retry_mode, last_password>>
                 ELSE /\ pc' = e.pc
                      /\ retry_mode' = e.retry_mode
                      /\ last_password' = e.last_password
                      /\ UNCHANGED <<status, manualSuccess>>
    /\ attempted' = TRUE
    /\ UNCHANGED <<cfgVars, outExists, verFile, dlExists, staging, staged, idx,
                   package_vec, selected_index, files, version,
                   current_password, pwSource, lastPrompt, wrote, lastDownload,
                   cleanupFailed>>

\* ------------------------------------------- version persist and cleanup

\* save_version_file, called when the retry loop is left: fs::write
\* replaces version.txt or fails.
SaveVersion ==
    /\ pc = "save"
    /\ \E ok \in BOOLEAN :
          /\ verFile' = IF ok THEN [verFile EXCEPT ![cur] = version] ELSE verFile
          /\ wrote' = ok
    /\ pc' = "cleanup"
    /\ UNCHANGED <<cfgVars, outExists, outFiles, dlExists, staging, staged, idx,
                   package_vec, selected_index, files, version, retry_mode,
                   last_password, current_password, pwSource, lastPrompt,
                   attempted, lastTool, lastResult, lastDownload, status, toolMissing,
                   manualSuccess, cleanupFailed>>

\* cleanup_package_dir(package_dl_dir), then the end of the iteration.
Cleanup ==
    /\ pc = "cleanup"
    /\ staging' = [staging EXCEPT ![cur] = FALSE]
    /\ staged' = [staged EXCEPT ![cur] = {}]
    /\ Continue
    /\ UNCHANGED <<cfgVars, outExists, outFiles, verFile, dlExists, package_vec,
                   selected_index, status, toolMissing, manualSuccess, cleanupFailed>>

\* cleanup_package_dir(dl_dir) after the loop, as a mutation would break
\* it: the download root is left alone.
FinalCleanup_skip ==
    /\ pc = "final"
    /\ pc' = "done"
    /\ UNCHANGED <<cfgVars, fsVars, idx, package_vec, selected_index,
                   localVars, status, toolMissing, manualSuccess,
                   cleanupFailed>>

\* cleanup_package_dir(dl_dir) after the loop: remove_dir_all takes the
\* download root with every staging directory under it, or fails, which is
\* reported; the completion prompt follows in both cases.
FinalCleanup ==
    /\ pc = "final"
    /\ \E ok \in BOOLEAN :
          IF ok \/ ~dlExists
          THEN /\ dlExists' = FALSE
               /\ staging' = [p \in Pkgs |-> FALSE]
               /\ staged' = [p \in Pkgs |-> {}]
               /\ cleanupFailed' = FALSE
          ELSE /\ UNCHANGED <<dlExists, staging, staged>>
               /\ cleanupFailed' = TRUE
    /\ pc' = "done"
    /\ UNCHANGED <<cfgVars, outExists, outFiles, verFile, idx, package_vec,
                   selected_index, localVars, status, toolMissing,
                   manualSuccess>>

\* The completion prompt: Enter leaves main.
Finish ==
    /\ pc = "done"
    /\ pc' = "exited"
    /\ UNCHANGED <<cfgVars, fsVars, idx, package_vec, selected_index,
                   localVars, status, toolMissing, manualSuccess, cleanupFailed>>

Next ==
    \/ Startup
    \/ Select
    \/ LoopHead
    \/ CheckAvailable
    \/ FetchFiles
    \/ GetVersion
    \/ Decide
    \/ Download
    \/ Reconcile
    \/ ChoosePassword
    \/ Extract
    \/ SaveVersion
    \/ Cleanup
    \/ FinalCleanup
    \/ Finish

Spec == Init /\ [][Next]_vars

\* ------------------------------------------- should_update_package alone

\* Everything but `call`, at rest: one configuration, nothing installed,
\* main not started.
runVars == <<name, is_root, password, fsVars, pc, idx, package_vec,
             selected_index, localVars, status, toolMissing, manualSuccess, cleanupFailed>>

AtRest ==
    /\ name = [p \in Pkgs |-> IF p = 1 THEN <<2>> ELSE <<1>>]
    /\ is_root = [p \in Pkgs |-> FALSE]
    /\ password = [p \in Pkgs |-> ""]
    /\ outExists = [p \in Pkgs |-> FALSE]
    /\ outFiles = [p \in Pkgs |-> {}]
    /\ verFile = [p \in Pkgs |-> NoVersion]
    /\ dlExists = FALSE
    /\ staging = [p \in Pkgs |-> FALSE]
    /\ staged = [p \in Pkgs |-> {}]
    /\ pc = "start"
    /\ idx = 1
    /\ package_vec = <<>>
    /\ selected_index = 0
    /\ files = <<>>
    /\ version = NoVersion
    /\ retry_mode = FALSE
    /\ last_password = ""
    /\ current_password = ""
    /\ status = [p \in Pkgs |-> "none"]
    /\ pwSource = "none"
    /\ lastPrompt = NoPrompt
    /\ attempted = FALSE
    /\ lastTool = NoTool
    /\ lastResult = "none"
    /\ wrote = FALSE
    /\ lastDownload = "none"
    /\ toolMissing = FALSE
    /\ manualSuccess = FALSE
    /\ cleanupFailed = FALSE

\* Any local version (or none), any remote version, any answer.
InitDecide ==
    /\ AtRest
    /\ call \in [fn : {"should_update_package"},
                 current : Versions \cup {NoVersion}, new : Versions,
                 answer : Answers, done : {FALSE}, update : {FALSE},
                 prompted : {FALSE}]

CallShouldUpdate ==
    /\ call.fn = "should_update_package"
    /\ ~call.done
    /\ LET d == ShouldUpdate(call.current, call.new, call.answer)
       IN  call' = [call EXCEPT !.done = TRUE, !.update = d.update,
                                !.prompted = d.prompted]
    /\ UNCHANGED runVars

NextDecide == CallShouldUpdate

SpecDecide == InitDecide /\ [][NextDecide]_vars

\* ------------------------------------------------ handle_output_dir alone

\* main() not started: nothing downloaded, no package processed.
mainVars == <<pc, idx, package_vec, selected_index, localVars, status,
              toolMissing, manualSuccess, cleanupFailed>>

Idle ==
    /\ dlExists = FALSE
    /\ staging = [p \in Pkgs |-> FALSE]
    /\ staged = [p \in Pkgs |-> {}]
    /\ pc = "start"
    /\ idx = 1
    /\ package_vec = <<>>
    /\ selected_index = 0
    /\ files = <<>>
    /\ version = NoVersion
    /\ retry_mode = FALSE
    /\ last_password = ""
    /\ current_password = ""
    /\ status = [p \in Pkgs |-> "none"]
    /\ pwSource = "none"
    /\ lastPrompt = NoPrompt
    /\ attempted = FALSE
    /\ lastTool = NoTool
    /\ lastResult = "none"
    /\ wrote = FALSE
    /\ lastDownload = "none"
    /\ toolMissing = FALSE
    /\ manualSuccess = FALSE
    /\ cleanupFailed = FALSE

\* Any package, root or not, its output directory absent or installed; any
\* answer to the prompt; any answer of the file system.
InitReconcile ==
    /\ Idle
    /\ name = [p \in Pkgs |-> IF p = 1 THEN <<2>> ELSE <<1>>]
    /\ is_root \in [Pkgs -> BOOLEAN]
    /\ password = [p \in Pkgs |-> ""]
    /\ outExists \in [Pkgs -> BOOLEAN]
    /\ outFiles = [p \in Pkgs |-> IF outExists[p] THEN {"old"} ELSE {}]
    /\ verFile = [p \in Pkgs |-> IF outExists[p] THEN InstalledVersion ELSE NoVersion]
    /\ call \in [fn : {"handle_output_dir"}, p : Pkgs, choice : Choices,
                 fsr : ReconcileOutcomes, done : {FALSE}, existed : {FALSE},
                 prompted : {FALSE}, ok : {FALSE}]

CallHandleOutputDir ==
    /\ call.fn = "handle_output_dir"
    /\ ~call.done
    /\ LET p == call.p
           r == HandleOutputDir(p, call.choice, call.fsr)
       IN  /\ outExists' = [outExists EXCEPT ![p] = r.exists]
           /\ outFiles' = [outFiles EXCEPT ![p] = r.outFiles]
           /\ verFile' = [verFile EXCEPT ![p] = r.verFile]
           /\ call' = [call EXCEPT !.done = TRUE, !.existed = outExists[p],
                                    !.prompted = OutputPrompted(p), !.ok = r.ok]
    /\ UNCHANGED <<name, is_root, password, dlExists, staging, staged, mainVars>>

NextReconcile == CallHandleOutputDir

SpecReconcile == InitReconcile /\ [][NextReconcile]_vars

\* ------------------------------------------- the Version functions alone

\* One text goes through Version::parse; a parsed Version is written by
\* save_version_file and read back by get_current_version.
InitVersion ==
    /\ Idle
    /\ name = [p \in Pkgs |-> IF p = 1 THEN <<2>> ELSE <<1>>]
    /\ is_root = [p \in Pkgs |-> FALSE]
    /\ password = [p \in Pkgs |-> ""]
    /\ outExists = [p \in Pkgs |-> TRUE]
    /\ outFiles = [p \in Pkgs |-> {}]
    /\ verFile = [p \in Pkgs |-> NoVersion]
    /\ call \in [fn : {"Version::parse"}, text : Texts, stage : {"new"},
                 parsed : {NoParse}, exists : {FALSE}, content : {<<>>},
                 read : {NoParse}]

CallVersionParse ==
    /\ call.fn = "Version::parse"
    /\ call.stage = "new"
    /\ call' = [call EXCEPT !.stage = "parsed", !.parsed = VersionParse(call.text)]
    /\ UNCHANGED runVars

\* save_version_file: fs::write creates version.txt with the text, or fails.
CallSaveVersionFile ==
    /\ call.fn = "Version::parse"
    /\ call.stage = "parsed"
    /\ call.parsed.ok
    /\ \E ok \in BOOLEAN :
          call' = IF ok
                  THEN [call EXCEPT !.stage = "saved", !.exists = TRUE,
                                    !.content = FormatVersion(call.parsed.date,
                                                              call.parsed.iteration)]
                  ELSE [call EXCEPT !.stage = "save_failed"]
    /\ UNCHANGED runVars

\* get_current_version: None without version.txt, else read_to_string,
\* which can fail, and Version::parse of the content.
CallGetCurrentVersion ==
    /\ call.fn = "Version::parse"
    /\ call.stage = "saved"
    /\ \E ok \in BOOLEAN :
          call' = IF ~call.exists THEN [call EXCEPT !.stage = "read_none"]
                  ELSE IF ~ok THEN [call EXCEPT !.stage = "read_failed"]
                  ELSE [call EXCEPT !.stage = "read",
                                    !.read = VersionParse(call.content)]
    /\ UNCHANGED runVars

NextVersion ==
    \/ CallVersionParse
    \/ CallSaveVersionFile
    \/ CallGetCurrentVersion

SpecVersion == InitVersion /\ [][NextVersion]_vars

\* ------------------------------------------- the ordering of Version alone

InitCompare ==
    /\ AtRest
    /\ call \in [fn : {"Version::cmp"}, a : Versions, b : Versions,
                 done : {FALSE}, result : {0}]

CallCmp ==
    /\ call.fn = "Version::cmp"
    /\ ~call.done
    /\ call' = [call EXCEPT !.done = TRUE, !.result = VersionCmp(call.a, call.b)]
    /\ UNCHANGED runVars

NextCompare == CallCmp

SpecCompare == InitCompare /\ [][NextCompare]_vars

\* ------------------------------------------------- extract_archives alone

\* Manifest entries whose numbers hold the digits of 001 in several places.
ExtractEntries == [base : {"a", "b"}, num : {1, 10, 100, 1001}] \cup {Plain}

\* One package's manifest is downloaded, every file with success, and one
\* call of extract_archives follows.
InitExtract ==
    /\ AtRest
    /\ call \in [fn : {"extract_archives"}, entries : SUBSET ExtractEntries,
                 stage : {"new"}, result : {"none"}, invoked : {<<>>}]

\* The download loop over the manifest, every download_file returning Ok.
CallDownloads ==
    /\ call.fn = "extract_archives"
    /\ call.stage = "new"
    /\ LET names == {TransformFilename(e) : e \in call.entries} \ {NoName}
       IN  /\ dlExists' = (names # {})
           /\ staging' = [staging EXCEPT ![1] = (names # {})]
           /\ staged' = [staged EXCEPT ![1] = names]
    /\ call' = [call EXCEPT !.stage = "staged"]
    /\ UNCHANGED <<name, is_root, password, outExists, outFiles, verFile,
                   mainVars>>

CallExtractArchives ==
    /\ call.fn = "extract_archives"
    /\ call.stage = "staged"
    /\ \E order \in Perms(Archives(1)), out \in [Archives(1) -> ToolOutcomes] :
          LET r == ExtractArchives(1, order, out)
          IN  /\ call' = [call EXCEPT !.stage = "extracted",
                                       !.result = r.result,
                                       !.invoked = r.invoked]
              /\ outExists' = [outExists EXCEPT ![1] = @ \/ r.moved]
              /\ outFiles' = IF r.moved
                             THEN [outFiles EXCEPT ![1] = @ \cup {"new"}]
                             ELSE outFiles
    /\ UNCHANGED <<name, is_root, password, verFile, dlExists, staging, staged,
                   mainVars>>

NextExtract ==
    \/ CallDownloads
    \/ CallExtractArchives

SpecExtract == InitExtract /\ [][NextExtract]_vars

\* ------------------------------------------------ the retry loop alone

\* What the first package's downloads leave in its staging directory: no
\* directory (empty manifest), an empty one (the GET failed), or volumes.
StagedAtLoop ==
    {[staging |-> FALSE, staged |-> {}, lastDownload |-> "none"],
     [staging |-> TRUE, staged |-> {}, lastDownload |-> "http_error"],
     [staging |-> TRUE, staged |-> {[base |-> "a", ext |-> <<0, 0, 2>>]},
      lastDownload |-> "ok"],
     [staging |-> TRUE, staged |-> {[base |-> "a", ext |-> <<0, 0, 1>>]},
      lastDownload |-> "ok"],
     [staging |-> TRUE, staged |-> {[base |-> "a", ext |-> <<0, 0, 1>>],
                                    [base |-> "b", ext |-> <<0, 0, 1>>]},
      lastDownload |-> "ok"]}

\* main at the head of the retry loop of the first package of a run over
\* all packages, nothing installed before: handle_output_dir has just
\* created the output directory.
InitRetry ==
    /\ name = [p \in Pkgs |-> IF p = 1 THEN <<2>> ELSE <<1>>]
    /\ is_root = [p \in Pkgs |-> FALSE]
    /\ password \in [Pkgs -> {"", "cfg"}]
    /\ call = NoCall
    /\ package_vec = SortPackages
    /\ selected_index = 0
    /\ idx = 1
    /\ pc = "password"
    /\ outExists = [p \in Pkgs |-> p = package_vec[1]]
    /\ outFiles = [p \in Pkgs |-> {}]
    /\ verFile = [p \in Pkgs |-> NoVersion]
    /\ \E s \in StagedAtLoop :
          /\ dlExists = s.staging
          /\ staging = [p \in Pkgs |-> p = package_vec[1] /\ s.staging]
          /\ staged = [p \in Pkgs |-> IF p = package_vec[1] THEN s.staged ELSE {}]
          /\ lastDownload = s.lastDownload
    /\ files = <<>>
    /\ version \in RemoteVersions
    /\ retry_mode = FALSE
    /\ last_password = ""
    /\ current_password = ""
    /\ status = [p \in Pkgs |-> IF p = package_vec[1] THEN "started" ELSE "none"]
    /\ pwSource = "none"
    /\ lastPrompt = NoPrompt
    /\ attempted = FALSE
    /\ lastTool = NoTool
    /\ lastResult = "none"
    /\ wrote = FALSE
    /\ toolMissing = FALSE
    /\ manualSuccess = FALSE
    /\ cleanupFailed = FALSE

NextRetry ==
    \/ ChoosePassword
    \/ Extract

\* Every prompt is answered and every call of extract_archives returns.
SpecRetry ==
    InitRetry /\ [][NextRetry]_vars /\ WF_vars(ChoosePassword) /\ WF_vars(Extract)

\* ---------------------------------------------------------------- claims

\* The steps of main that belong to one package's iteration.
PkgSteps == {"avail", "files", "version", "decide", "download", "reconcile",
             "password", "extract", "save", "cleanup"}

\* The package at position i is selected for processing.
Selected(i) == selected_index = 0 \/ selected_index = i

\* The per-package failures that end a package's iteration early.
PackageFailures == {"unavailable", "manifest_error", "version_error",
                    "reconcile_error"}

\* C1: version.txt of a package is written only when the retry loop of that
\* package ended in Succeeded; after Skipped it is not written.
C1_VersionOnlyOnSucceeded == wrote => status[cur] = "Succeeded"

\* C2: once an extraction attempt has failed because the tool could not be
\* started, the run ends: control is neither back in the retry loop (the
\* prompt) nor in any step of a later package.
C2_ToolMissingEndsRun ==
    toolMissing => pc \notin {"password", "extract", "avail", "files", "version",
                              "decide", "download", "reconcile"}

\* C3: after an attempt failed with ExtractionFailed (nonzero exit, no
\* wrong-password marker) the package's extraction is over: control is not
\* back at the head of the retry loop, where the next prompt is issued.
C3_OtherFailureEndsExtraction ==
    lastResult = "ExtractionFailed" => pc \notin {"password", "extract"}

\* C4: a failure in one package never halts the run: once processing has
\* begun, every selected package before the current position has been
\* processed, and the run leaves the package loop only past the last one.
C4_FailureDoesNotHalt ==
    (\E p \in Pkgs : status[p] # "none") =>
        /\ \A i \in DOMAIN package_vec :
              (Selected(i) /\ i < idx) => status[package_vec[i]] # "none"
        /\ pc \in {"final", "done", "exited"} => idx = Len(package_vec) + 1

C4_Witness ==
    \E i, j \in DOMAIN package_vec :
        /\ i < j
        /\ status[package_vec[i]] \in PackageFailures
        /\ status[package_vec[j]] = "started"

\* C5: when the processing of a package begins, no staging directory of a
\* package processed before it exists any more.
C5_StagingGoneBeforeNext == pc = "avail" => \A p \in Pkgs : ~staging[p]

\* C6: a blank entry at the first or the retry prompt marks the package
\* skipped and leaves the retry loop: what follows is the end of the
\* iteration, never an extraction attempt.
C6_BlankEntrySkips ==
    (pc \in PkgSteps /\ lastPrompt.kind \in {"first", "retry"} /\ lastPrompt.entry = "")
        => (status[cur] = "Skipped" /\ pc \in {"save", "cleanup"})

C6_Witness ==
    /\ pc = "cleanup"
    /\ lastPrompt = [kind |-> "retry", entry |-> ""]
    /\ status[cur] = "Skipped"
    /\ attempted

\* C7: the configured password goes to the first attempt only: an attempt
\* that uses it is the package's first, and every attempt after a failed one
\* uses the line just typed at a prompt.
C7_ConfiguredSingleShot ==
    pc = "extract" =>
        /\ pwSource = "configured" => ~attempted
        /\ attempted => /\ pwSource = "manual"
                        /\ lastPrompt.kind = "retry"
                        /\ current_password = lastPrompt.entry

C7_Witness ==
    /\ pc = "extract"
    /\ attempted
    /\ password[cur] = "cfg"
    /\ pwSource = "manual"

\* C8: a nonzero exit whose stderr holds the wrong-password marker is
\* reported as WrongPassword, and main is then at the head of the retry loop
\* in retry mode, where the next step is the retry prompt.
C8_WrongPasswordPrompts ==
    (lastTool.launch = "ran" /\ ~lastTool.success /\ lastTool.marker) =>
        /\ lastResult = "WrongPassword"
        /\ pc = "password"
        /\ retry_mode
        /\ \A e \in Entries :
              PasswordChoice(password[cur], retry_mode, last_password, e).prompt = "retry"

C8_Witness ==
    /\ lastResult = "WrongPassword"
    /\ pc = "password"
    /\ lastTool = [launch |-> "ran", success |-> FALSE, marker |-> TRUE]

\* C9: after a package of this run succeeded with a manually entered
\* password, a later package without a configured password enters the retry
\* loop with that password remembered (UsePrevious).
C9_LaterPackageUsesPrevious ==
    (pc = "password" /\ ~retry_mode /\ password[cur] = "" /\ manualSuccess)
        => last_password # ""

\* C10: the decision table of should_update_package: no local version, or an
\* older one, updates without a prompt; an equal or a newer local version
\* prompts and updates exactly when the answer is yes.
C10_DecisionTable ==
    call.done =>
        LET c == call.current
            n == call.new
            yes == call.answer \in {"Y", "y"}
        IN  /\ c = NoVersion => (call.update /\ ~call.prompted)
            /\ (c # NoVersion /\ VersionCmp(c, n) < 0)
                  => (call.update /\ ~call.prompted)
            /\ (c # NoVersion /\ VersionCmp(c, n) = 0)
                  => (call.prompted /\ (call.update <=> yes))
            /\ (c # NoVersion /\ VersionCmp(c, n) > 0)
                  => (call.prompted /\ (call.update <=> yes))

C10_Witness ==
    /\ call.done
    /\ call.current # NoVersion
    /\ VersionCmp(call.current, call.new) > 0
    /\ call.update

\* C11: a declined update skips the package entirely: the declining step
\* touches no file and hands over to the package loop, and from then on no
\* step downloads into the package's staging directory, reconciles or
\* extracts into its output directory, or writes its version.txt.
C11_DeclinedLeavesUntouched ==
    [][\A p \in Pkgs :
          /\ (status[p] # "skipped_update" /\ status'[p] = "skipped_update")
                => (fsVars' = fsVars /\ pc' = "loop" /\ idx' = idx + 1)
          /\ status[p] = "skipped_update"
                => /\ ~staging[p] /\ ~staging'[p]
                   /\ staged'[p] = staged[p]
                   /\ outExists'[p] = outExists[p]
                   /\ outFiles'[p] = outFiles[p]
                   /\ verFile'[p] = verFile[p]]_vars

C11_Witness ==
    /\ pc = "save"
    /\ status[cur] = "Succeeded"
    /\ \E p \in Pkgs :
          /\ p # cur
          /\ status[p] = "skipped_update"
          /\ verFile[p] = InstalledVersion
          /\ outFiles[p] = {"old"}

\* C12: handle_output_dir creates a missing output directory; leaves an
\* existing one of a root package in place without asking; and for an
\* existing one of a non-root package asks, removes and recreates it empty
\* on Delete, and leaves it in place on any other answer, blank included.
C12_OutputReconcile ==
    (call.fn = "handle_output_dir" /\ call.done) =>
        LET p == call.p
            delete == call.choice \in {"D", "d"}
            inPlace == /\ outExists[p]
                       /\ outFiles[p] = {"old"}
                       /\ verFile[p] = InstalledVersion
            empty == outExists[p] /\ outFiles[p] = {} /\ verFile[p] = NoVersion
        IN  /\ (~call.existed /\ call.fsr = "ok")
                  => (call.ok /\ empty /\ ~call.prompted)
            /\ (call.existed /\ is_root[p])
                  => (call.ok /\ inPlace /\ ~call.prompted)
            /\ (call.existed /\ ~is_root[p]) => call.prompted
            /\ (call.existed /\ ~is_root[p] /\ ~delete) => (call.ok /\ inPlace)
            /\ (call.existed /\ ~is_root[p] /\ delete /\ call.fsr = "ok")
                  => (call.ok /\ empty)
            /\ (call.existed /\ ~inPlace) => (~is_root[p] /\ delete)

C12_Witness ==
    /\ call.fn = "handle_output_dir"
    /\ call.done
    /\ call.existed
    /\ is_root[call.p]
    /\ call.choice = "d"
    /\ outFiles[call.p] = {"old"}

\* C13: the packages are processed in the sorted order: every root package
\* comes before every non-root package, packages of the same group come in
\* ascending order of name, and a selected package is begun only after
\* every selected package before it in that order.
C13_SortedProcessingOrder ==
    package_vec # <<>> =>
        /\ \A p \in Pkgs : \E i \in DOMAIN package_vec : package_vec[i] = p
        /\ \A i, j \in DOMAIN package_vec :
              i < j =>
                 /\ is_root[package_vec[j]] => is_root[package_vec[i]]
                 /\ is_root[package_vec[i]] = is_root[package_vec[j]]
                       => StrCmp(name[package_vec[i]], name[package_vec[j]]) <= 0
                 /\ (Selected(i) /\ Selected(j) /\ status[package_vec[j]] # "none")
                       => status[package_vec[i]] # "none"

C13_Witness ==
    /\ pc = "avail"
    /\ idx = 2
    /\ is_root[package_vec[1]]
    /\ ~is_root[package_vec[2]]
    /\ StrCmp(name[package_vec[1]], name[package_vec[2]]) > 0
    /\ status[package_vec[1]] # "none"

\* C14: the completion prompt is reached only after every selected package
\* has been processed, and, the removal of the download root having
\* succeeded, with neither the download root nor any staging directory left,
\* whatever each package ended in.
C14_DownloadRootGoneAtEnd ==
    pc = "done" =>
        /\ idx = Len(package_vec) + 1
        /\ \A i \in DOMAIN package_vec :
              Selected(i) => status[package_vec[i]] # "none"
        /\ ~cleanupFailed => (~dlExists /\ \A p \in Pkgs : ~staging[p])

C14_Witness ==
    /\ pc = "done"
    /\ ~cleanupFailed
    /\ ~dlExists
    /\ \E p, q \in Pkgs : /\ status[p] = "reconcile_error"
                           /\ status[q] = "Succeeded"
                           /\ "new" \in outFiles[q]

\* C15: every Version that Version::parse returns has exactly two parts
\* behind it and an iteration that is a non-negative integer.
C15_ParsedIterationNonNegative ==
    (call.fn = "Version::parse" /\ call.stage # "new" /\ call.parsed.ok) =>
        /\ Len(SplitDashes(Trim(call.text), <<>>)) = 2
        /\ call.parsed.iteration >= 0

\* C16: the ordering of Version is lexicographic on (date, iteration): a is
\* less than b exactly when its date is the lesser string, or the dates are
\* equal and its iteration is the lesser number; equal fields compare Equal.
C16_VersionOrdering ==
    (call.fn = "Version::cmp" /\ call.done) =>
        LET StrLt(s, t) ==
                \E k \in 1..(Len(s) + 1) :
                    /\ \A i \in 1..(k - 1) : i <= Len(t) /\ s[i] = t[i]
                    /\ \/ k = Len(s) + 1 /\ k <= Len(t)
                       \/ k <= Len(s) /\ k <= Len(t) /\ s[k] < t[k]
            Lt(a, b) == \/ StrLt(a.date, b.date)
                        \/ a.date = b.date /\ a.iteration < b.iteration
        IN  /\ call.result < 0 <=> Lt(call.a, call.b)
            /\ call.result > 0 <=> Lt(call.b, call.a)
            /\ (call.a.date = call.b.date /\ call.a.iteration = call.b.iteration)
                  => call.result = 0

C16_Witness ==
    /\ call.fn = "Version::cmp"
    /\ call.done
    /\ call.a.date = <<1, 0>>
    /\ call.b.date = <<9>>
    /\ call.a.iteration > call.b.iteration
    /\ call.result < 0

\* C17: a Version that Version::parse produced, written by
\* save_version_file and read back by get_current_version, is read back
\* equal.
C17_RoundTrip ==
    (call.fn = "Version::parse" /\ call.stage = "read") =>
        /\ call.read.ok
        /\ call.read.date = call.parsed.date
        /\ call.read.iteration = call.parsed.iteration

C17_Witness ==
    /\ call.fn = "Version::parse"
    /\ call.stage = "read"
    /\ call.parsed.date # <<>>
    /\ call.content # call.text
    /\ call.read = call.parsed

\* C18: a failing local file operation ends the package's iteration: after
\* download_file failed on the staging directory or on the target file, no
\* extraction attempt and no write of version.txt follow for that package.
C18_FilesystemErrorAbortsPackage ==
    lastDownload \in {"mkdir_error", "copy_error"} =>
        (pc # "extract" /\ ~attempted /\ ~wrote)

\* C19: within a package the steps follow one another in the fixed order:
\* version fetch, manifest fetch, update decision, one download step per
\* manifest entry, reconcile, extraction attempts (each behind its password
\* choice), version persist, staging deletion.  A step is followed by the
\* next one or by the end of the iteration; reconcile begins only when no
\* manifest entry is left, and an attempt is made only on an output
\* directory that reconcile has completed.
C19_StepOrder ==
    [][LET Follows(step) ==
               CASE step = "avail" -> {"files"}
                 [] step = "files" -> {"version"}
                 [] step = "version" -> {"decide"}
                 [] step = "decide" -> {"download", "reconcile"}
                 [] step = "download" -> {"download", "reconcile"}
                 [] step = "reconcile" -> {"password"}
                 [] step = "password" -> {"extract", "save"}
                 [] step = "extract" -> {"password", "save"}
                 [] step = "save" -> {"cleanup"}
                 [] OTHER -> {}
       IN  /\ pc \in PkgSteps => pc' \in Follows(pc) \cup {"loop"}
           /\ (pc \in PkgSteps /\ pc' \in PkgSteps) => idx' = idx
           /\ pc' \in PkgSteps => pc \in PkgSteps \cup {"loop"}
           /\ pc' = "avail" => pc = "loop"
           /\ pc' = "download" => files' # <<>>
           /\ pc' \in {"reconcile", "password", "extract", "save", "cleanup"}
                 => files' = <<>>
           /\ pc' \in {"password", "extract"} => outExists'[cur]]_vars

C19_Witness ==
    /\ pc = "cleanup"
    /\ status[cur] = "Succeeded"
    /\ lastDownload = "ok"
    /\ attempted
    /\ "new" \in outFiles[cur]
    /\ wrote
    /\ staging[cur]

\* C20: a manifest entry that transform_filename rejects costs that entry
\* only: the step reports it, touches no file, leaves the package's status
\* alone and goes on with the next entry, or with reconcile after the last.
C20_TransformFailurePerFile ==
    [][(pc = "download" /\ TransformFilename(Head(files)) = NoName) =>
          /\ lastDownload' = "transform_error"
          /\ files' = Tail(files)
          /\ pc' = (IF Tail(files) = <<>> THEN "reconcile" ELSE "download")
          /\ idx' = idx
          /\ status' = status
          /\ fsVars' = fsVars]_vars

C20_Witness ==
    /\ pc = "download"
    /\ lastDownload = "transform_error"
    /\ Len(files) = 1
    /\ TransformFilename(Head(files)) # NoName

\* C21: inside a package's retry loop last_password changes only in the
\* step of a successful extraction attempt that used a manually entered,
\* non-empty password; a password typed at a prompt does not change it
\* before its attempt has succeeded.
C21_LastPasswordOnlyOnSuccess ==
    [][(/\ pc \in {"password", "extract"}
        /\ pc' \in {"password", "extract", "save"}
        /\ last_password' # last_password)
          => /\ pc = "extract"
             /\ lastResult' = "ok"
             /\ pwSource = "manual"
             /\ current_password # ""
             /\ last_password' = current_password]_vars

\* C23: a package reaches Succeeded only through an attempt in which the
\* tool ran on an archive group and exited with success.
C23_SucceededMeansExtracted ==
    (pc = "save" /\ status[cur] = "Succeeded") =>
        (lastTool.launch = "ran" /\ lastTool.success)

\* C24: every call of extract_archives made by the retry loop is given a
\* non-empty password.
C24_AttemptHasPassword == pc = "extract" => current_password # ""

C24_Witness ==
    /\ pc = "extract"
    /\ password[cur] = ""
    /\ lastPrompt = [kind |-> "first", entry |-> "m1"]
    /\ current_password = "m1"

BlankEntry ==
    /\ ChoosePassword
    /\ lastPrompt'.kind # "none"
    /\ lastPrompt'.entry = ""

\* One step out of the retry loop's two positions: it stays in the loop or
\* leaves it for save_version_file, and it leaves only on Ok from
\* extract_archives or on a blank line at the first or the retry prompt; an
\* error leads back to the prompt in retry mode, a line that is not blank to
\* an attempt.
RetryLoopStep ==
    pc \in {"password", "extract"} =>
        /\ pc' \in {"password", "extract", "save"}
        /\ pc' = "save" =>
              IF pc = "extract"
              THEN lastResult' = "ok" /\ status'[cur] = "Succeeded"
              ELSE /\ lastPrompt'.kind \in {"first", "retry"}
                   /\ lastPrompt'.entry = ""
                   /\ status'[cur] = "Skipped"
        /\ (pc = "extract" /\ lastResult' # "ok")
              => (pc' = "password" /\ retry_mode')
        /\ (pc = "password" /\ lastPrompt'.entry # "") => pc' = "extract"

\* C25: the retry loop is left only by a successful attempt or by a blank
\* line at a prompt; a failed attempt leads back to a prompt, where any
\* other line leads to one more attempt, however many have failed; and the
\* loop is left when the operator, asked again and again, enters a blank
\* line at last.
C25_RetryLoopExits ==
    /\ [][RetryLoopStep]_vars
    /\ SF_vars(BlankEntry) => (pc \in {"password", "extract"} ~> pc = "save")

C25_Witness ==
    /\ pc = "save"
    /\ status[cur] = "Skipped"
    /\ attempted
    /\ lastResult = "none"
    /\ lastPrompt = [kind |-> "retry", entry |-> ""]

====
